---- MODULE Spec2Model ----
(***************************************************************************)
(* Model of glocal_viz.py: the TTL-cached readers (read_data,              *)
(* get_country_shapefile, get_country_shapefile_as_geojson,                *)
(* read_glocal_var) over the remote object readers (gcsfs_to_pandas,       *)
(* gcsfs_to_geopandas), and the availability-window part of the script     *)
(* (availability_dict, the year slider, the Data Availability table and    *)
(* the National Trends notice).                                            *)
(***************************************************************************)
EXTENDS Integers, Sequences, FiniteSets, TLC

VARIABLES now, schema, read_data_cache, func_cache, pc, op, held, io, last,
          calls,
          step, glocal_missing_dict, selected_country, selected_gadm_level,
          availability_dict, missingvals_year, selected_year,
          availability_table, trends_notice, script_error

cacheVars == <<now, schema, read_data_cache, func_cache, pc, op, held, io, last, calls>>
scriptVars == <<step, glocal_missing_dict, selected_country, selected_gadm_level,
                availability_dict, missingvals_year, selected_year,
                availability_table, trends_notice, script_error>>
vars == <<cacheVars, scriptVars>>

(***************************************************************************)
(* Bounds of the model and constants of the program.                       *)
(***************************************************************************)
TTL == 900
TickLen == 450
MaxTime == 1350
MaxCalls == 2
FirstYear == 2010
NumYears == 3

Sessions == {"s1", "s2"}
Levels == {0, 1, 2}

(***************************************************************************)
(* Values: column names, object paths, requests, payloads, results.        *)
(***************************************************************************)
\* f"GID_{level}", f"NAME_{level}" and the plain column names
LevelCol(prefix, level) == <<prefix, level>>
Col(name) == <<name, -1>>

NoColumns == [given |-> FALSE, list |-> <<>>]
Columns(l) == [given |-> TRUE, list |-> l]

Range(s) == {s[i] : i \in 1..Len(s)}

\* an object path: the part before the extension and the extension
Path(dir, level, name, ext) == [dir |-> dir, level |-> level, name |-> name, ext |-> ext]
NoPath == Path("", -1, "", "")

endswith(file_name, ext) == file_name.ext = ext

Request(path_in_bucket, columns, spatial) ==
    [path |-> path_in_bucket, columns |-> columns, spatial |-> spatial]

NoPayload == [path |-> NoPath, cols |-> {}, fetchedAt |-> -1, form |-> "none"]
Table(file_name, cols, t) == [path |-> file_name, cols |-> cols, fetchedAt |-> t, form |-> "table"]

NoCol == Col("")
Return(payload) == [kind |-> "ok", msg |-> "", col |-> NoCol, payload |-> payload]
Raise(kind, msg, col) == [kind |-> kind, msg |-> msg, col |-> col, payload |-> NoPayload]

(***************************************************************************)
(* The remote bucket: the columns each stored object has.  The boundary    *)
(* objects' columns are drawn in Init (schema); the other objects have     *)
(* every column that is asked of them.                                     *)
(***************************************************************************)
GadmColumns(level) ==
    {LevelCol("GID_", level), LevelCol("NAME_", level), Col("geometry")}

Schemas == {"full", "no_name", "bare"}

SourceColumns(file_name, asked) ==
    IF file_name.dir = "gadm"
    THEN CASE schema = "full" -> GadmColumns(file_name.level)
           [] schema = "no_name" -> GadmColumns(file_name.level) \ {LevelCol("NAME_", file_name.level)}
           [] OTHER -> {Col("geometry")}
    ELSE asked \cup {Col("year"), Col("GID_0")}

(***************************************************************************)
(* Remote Object Reader.  openOk: fs.open finds and opens the object.      *)
(* strict: the parquet library raises on a requested column the object     *)
(* lacks (otherwise it returns the columns that exist).                    *)
(***************************************************************************)
read_parquet(file_name, columns, strict, t) ==
    LET asked == Range(columns.list)
        have == SourceColumns(file_name, asked)
    IN  IF ~columns.given THEN Return(Table(file_name, have, t))
        ELSE IF strict /\ asked \ have # {}
             THEN Raise("FetchFailure", "Error reading parquet file", NoCol)
             ELSE Return(Table(file_name, asked \cap have, t))

\* mutant: the columns argument of a CSV read is ignored
gcsfs_to_pandas_columns_ignored(file_name, columns, openOk, strict, t) ==
    IF ~openOk THEN Raise("FetchFailure", "fs.open", NoCol)
    ELSE IF endswith(file_name, "parquet") THEN read_parquet(file_name, columns, strict, t)
    ELSE IF endswith(file_name, "csv")
         THEN Return(Table(file_name, SourceColumns(file_name, {}), t))
    ELSE Raise("UnsupportedFormat", "File format not supported", NoCol)

gcsfs_to_pandas(file_name, columns, openOk, strict, t) ==
    IF ~openOk THEN Raise("FetchFailure", "fs.open", NoCol)
    ELSE IF endswith(file_name, "parquet") THEN read_parquet(file_name, columns, strict, t)
    ELSE IF endswith(file_name, "csv")
         THEN IF columns.given
              THEN Raise("UnsupportedOperation", "Columns not supported for CSV files", NoCol)
              ELSE Return(Table(file_name, SourceColumns(file_name, {}), t))
    ELSE Raise("UnsupportedFormat", "File format not supported", NoCol)

gcsfs_to_geopandas(file_name, columns, openOk, strict, t) ==
    IF ~openOk THEN Raise("FetchFailure", "fs.open", NoCol)
    ELSE IF endswith(file_name, "parquet") THEN read_parquet(file_name, columns, strict, t)
    ELSE IF endswith(file_name, "shp")
         THEN IF columns.given
              THEN Raise("UnsupportedOperation", "Columns not supported for Shapefiles", NoCol)
              ELSE Return(Table(file_name, SourceColumns(file_name, {}) \cup {Col("geometry")}, t))
    ELSE Raise("UnsupportedFormat", "File format not supported", NoCol)

\* the body of read_data: one call of the reader the spatial flag selects
read_data_body(req, openOk, strict, t) ==
    IF ~req.spatial
    THEN gcsfs_to_pandas(req.path, req.columns, openOk, strict, t)
    ELSE gcsfs_to_geopandas(req.path, req.columns, openOk, strict, t)

(***************************************************************************)
(* st.cache_data(ttl=900): one cache per decorated function, keyed on the  *)
(* call's arguments; an entry is served while its age is below the TTL; a  *)
(* call that raises stores nothing.                                        *)
(***************************************************************************)
\* mutant: an entry whose age equals the TTL still counts as live
IsLive_inclusive(entry, t) == t - entry.stored <= TTL

IsLive(entry, t) == t - entry.stored < TTL

\* mutant: the key leaves the columns argument out
value_key_without_columns(req) == [req EXCEPT !.columns = NoColumns]

value_key(req) == req

Hit(cache, key, t) == key \in DOMAIN cache /\ IsLive(cache[key], t)

\* mutant: the outcome of a raising call is stored as well
ShouldStore_always(result) == TRUE

ShouldStore(result) == result.kind = "ok"

Write(cache, key, result, t) ==
    IF ShouldStore(result)
    THEN [k \in DOMAIN cache \cup {key} |->
            IF k = key THEN [payload |-> result.payload, stored |-> t] ELSE cache[k]]
    ELSE cache

(***************************************************************************)
(* The calls of the cached functions.                                      *)
(***************************************************************************)
vars_to_read(fn, level, arg) ==
    CASE fn = "get_country_shapefile" ->
            <<LevelCol("GID_", level), LevelCol("NAME_", level)>>
      [] fn = "get_country_shapefile_as_geojson" ->
            <<LevelCol("GID_", level), LevelCol("NAME_", level), Col("geometry")>>
      [] fn = "read_glocal_var" /\ level = 0 ->
            <<Col("year"), Col("GID_0"), Col(arg)>>
      [] fn = "read_glocal_var" /\ level = 1 ->
            <<Col("year"), Col("GID_0"), Col("GID_1"), Col(arg)>>
      [] fn = "read_glocal_var" /\ level = 2 ->
            <<Col("year"), Col("GID_0"), Col("GID_2"), Col(arg)>>
      [] OTHER -> <<>>

\* the read_data request each decorated function issues
InnerRequest(fn, level, arg) ==
    CASE fn = "get_country_shapefile" ->
            Request(Path("gadm", level, arg, "parquet"), Columns(vars_to_read(fn, level, arg)), FALSE)
      [] fn = "get_country_shapefile_as_geojson" ->
            Request(Path("gadm", level, arg, "parquet"), Columns(vars_to_read(fn, level, arg)), TRUE)
      [] OTHER ->
            Request(Path("annualized_level", level, "", "parquet"), Columns(vars_to_read(fn, level, arg)), FALSE)

ReadData(req) == [fn |-> "read_data", level |-> -1, arg |-> "", req |-> req]
Outer(fn, level, arg) == [fn |-> fn, level |-> level, arg |-> arg, req |-> InnerRequest(fn, level, arg)]
NoCall == [fn |-> "", level |-> -1, arg |-> "", req |-> Request(NoPath, NoColumns, FALSE)]

func_key(c) == [fn |-> c.fn, level |-> c.level, arg |-> c.arg]

\* the index of the first column of list that cols lacks (0: none)
FirstMissing(list, cols) ==
    LET miss == {i \in 1..Len(list) : list[i] \notin cols}
    IN  IF miss = {} THEN 0 ELSE CHOOSE i \in miss : \A j \in miss : i <= j

\* mutant: the loop over vars_to_read checks the first column only
post_process_first_only(c, gdf) ==
    LET list == vars_to_read(c.fn, c.level, c.arg)
    IN  IF c.fn = "read_glocal_var" THEN Return(gdf)
        ELSE IF list[1] \notin gdf.cols
             THEN Raise("SchemaViolation", "Column not found in shapefile", list[1])
             ELSE IF c.fn = "get_country_shapefile_as_geojson"
                  THEN Return([gdf EXCEPT !.form = "geojson"])
                  ELSE Return(gdf)

\* what a decorated function does with the table read_data gave it
post_process(c, gdf) ==
    LET list == vars_to_read(c.fn, c.level, c.arg)
        i == FirstMissing(list, gdf.cols)
    IN  IF c.fn = "read_glocal_var" THEN Return(gdf)
        ELSE IF i # 0
             THEN Raise("SchemaViolation", "Column not found in shapefile", list[i])
             ELSE IF c.fn = "get_country_shapefile_as_geojson"
                  THEN Return([gdf EXCEPT !.form = "geojson"])
                  ELSE Return(gdf)

\* a finished call: its result, whether its own cache served it, the remote
\* I/O attempts it made, and when it finished
Done(c, result, hit, attempts, t) ==
    [call |-> c, result |-> result, hit |-> hit, io |-> attempts, at |-> t]
NoneYet == Done(NoCall, Raise("none", "", NoCol), FALSE, 0, 0)

(***************************************************************************)
(* Inputs.                                                                 *)
(***************************************************************************)
Countries == {"X", "Y"}
Variables == {"v1", "v2"}

DirectRequests ==
    {Request(Path("", -1, "data", "csv"), Columns(<<Col("v1")>>), FALSE),
     Request(Path("", -1, "notes", "txt"), NoColumns, FALSE)}
    \cup {Request(Path("glocal_missing", 0, "", "parquet"),
                  Columns(<<Col("year"), Col("GID_0"), Col(v)>>), FALSE) : v \in Variables}

CallInputs ==
    {ReadData(r) : r \in DirectRequests}
    \cup {Outer(fn, l, "X") : fn \in {"get_country_shapefile", "get_country_shapefile_as_geojson"},
                              l \in {1}}
    \cup {Outer("read_glocal_var", l, "v1") : l \in {0, 3}}

(***************************************************************************)
(* Cache layer: state machine.                                             *)
(***************************************************************************)
CacheInit ==
    /\ now = 0
    /\ schema \in Schemas
    /\ read_data_cache = <<>>
    /\ func_cache = <<>>
    /\ pc = [s \in Sessions |-> "idle"]
    /\ op = [s \in Sessions |-> NoCall]
    /\ held = [s \in Sessions |-> NoPayload]
    /\ io = [s \in Sessions |-> 0]
    /\ last = [s \in Sessions |-> NoneYet]
    /\ calls = 0

\* session s calls a cached function: the decorator looks the arguments up,
\* and on a miss runs the body up to its remote read
Call(s, c) ==
    /\ pc[s] = "idle"
    /\ calls < MaxCalls
    /\ calls' = calls + 1
    /\ IF c.fn = "read_data"
       THEN IF Hit(read_data_cache, value_key(c.req), now)
            THEN /\ last' = [last EXCEPT ![s] =
                        Done(c, Return(read_data_cache[value_key(c.req)].payload), TRUE, 0, now)]
                 /\ UNCHANGED <<pc, op, held, io>>
            ELSE /\ pc' = [pc EXCEPT ![s] = "fetching"]
                 /\ op' = [op EXCEPT ![s] = c]
                 /\ io' = [io EXCEPT ![s] = 1]
                 /\ UNCHANGED <<last, held>>
       ELSE IF Hit(func_cache, func_key(c), now)
            THEN /\ last' = [last EXCEPT ![s] =
                        Done(c, Return(func_cache[func_key(c)].payload), TRUE, 0, now)]
                 /\ UNCHANGED <<pc, op, held, io>>
            ELSE IF c.fn = "read_glocal_var" /\ c.level \notin Levels
                 THEN /\ last' = [last EXCEPT ![s] =
                             Done(c, Raise("UnsupportedLevel", "GADM level not supported", NoCol),
                                  FALSE, 0, now)]
                      /\ UNCHANGED <<pc, op, held, io>>
                 ELSE IF Hit(read_data_cache, value_key(c.req), now)
                      THEN /\ pc' = [pc EXCEPT ![s] = "post"]
                           /\ op' = [op EXCEPT ![s] = c]
                           /\ held' = [held EXCEPT ![s] = read_data_cache[value_key(c.req)].payload]
                           /\ io' = [io EXCEPT ![s] = 0]
                           /\ UNCHANGED last
                      ELSE /\ pc' = [pc EXCEPT ![s] = "fetching"]
                           /\ op' = [op EXCEPT ![s] = c]
                           /\ io' = [io EXCEPT ![s] = 1]
                           /\ UNCHANGED <<last, held>>
    /\ UNCHANGED <<now, schema, read_data_cache, func_cache>>

\* the remote read of session s ends: read_data stores and returns the table,
\* or the failure propagates through every caller
FetchReturn(s, openOk, strict) ==
    /\ pc[s] = "fetching"
    /\ LET c == op[s]
           r == read_data_body(c.req, openOk, strict, now)
       IN  /\ read_data_cache' = Write(read_data_cache, value_key(c.req), r, now)
           /\ IF r.kind = "ok" /\ c.fn # "read_data"
              THEN /\ pc' = [pc EXCEPT ![s] = "post"]
                   /\ held' = [held EXCEPT ![s] = r.payload]
                   /\ UNCHANGED <<op, io, last>>
              ELSE /\ pc' = [pc EXCEPT ![s] = "idle"]
                   /\ op' = [op EXCEPT ![s] = NoCall]
                   /\ io' = [io EXCEPT ![s] = 0]
                   /\ last' = [last EXCEPT ![s] = Done(c, r, FALSE, io[s], now)]
                   /\ UNCHANGED held
    /\ UNCHANGED <<now, schema, func_cache, calls>>

\* the rest of a decorated function's body, and the decorator's store
Post(s) ==
    /\ pc[s] = "post"
    /\ LET c == op[s]
           r == post_process(c, held[s])
       IN  /\ func_cache' = Write(func_cache, func_key(c), r, now)
           /\ last' = [last EXCEPT ![s] =
                  Done(c, r, FALSE, io[s], now)]
    /\ pc' = [pc EXCEPT ![s] = "idle"]
    /\ op' = [op EXCEPT ![s] = NoCall]
    /\ held' = [held EXCEPT ![s] = NoPayload]
    /\ io' = [io EXCEPT ![s] = 0]
    /\ UNCHANGED <<now, schema, read_data_cache, calls>>

Tick ==
    /\ now + TickLen <= MaxTime
    /\ now' = now + TickLen
    /\ UNCHANGED <<schema, read_data_cache, func_cache, pc, op, held, io, last, calls>>

(***************************************************************************)
(* The script: availability window, year slider, Data Availability table,  *)
(* National Trends notice.                                                 *)
(***************************************************************************)
One == 100
Fractions == {50, 100}
Years == FirstYear..(FirstYear + NumYears - 1)

\* pandas numbers: NaN is what min() and max() of an empty Series give
NaN == [nan |-> TRUE, v |-> 0]
Num(v) == [nan |-> FALSE, v |-> v]
PdEq(a, b) == ~a.nan /\ ~b.nan /\ a.v = b.v
PdAdd(a, k) == IF a.nan THEN NaN ELSE Num(a.v + k)

SeriesMin(S) == IF S = {} THEN NaN ELSE Num(CHOOSE m \in S : \A y \in S : m <= y)
SeriesMax(S) == IF S = {} THEN NaN ELSE Num(CHOOSE m \in S : \A y \in S : m >= y)

Row(year, gid, frac) == [year |-> year, GID_0 |-> gid, frac |-> frac]

\* the "year" column of the rows of the selected country with a missing
\* fraction below 1
FilterYears(table, country) ==
    {r.year : r \in {q \in table : q.GID_0 = country /\ q.frac < One}}

\* mutant: the single-year correction is left out
Window_uncorrected(series) == <<SeriesMin(series), SeriesMax(series)>>

Window(series) ==
    IF PdEq(SeriesMin(series), SeriesMax(series))
    THEN <<SeriesMin(series), PdAdd(SeriesMax(series), 1)>>
    ELSE <<SeriesMin(series), SeriesMax(series)>>

LoopOrder == <<0, 1, 2>>

\* the Series the name missingvals_year is bound to after the loop
LoopLeftover(dict, country) ==
    FilterYears(dict[LoopOrder[Len(LoopOrder)]], country)

TableRow(window) == [earliest |-> window[1], latest |-> PdAdd(window[2], -1)]

NoticeFor(series) ==
    IF PdEq(SeriesMin(series), SeriesMax(series))
    THEN [shown |-> TRUE, year |-> SeriesMin(series)]
    ELSE [shown |-> FALSE, year |-> NaN]

NoSlider == [min_value |-> 0, max_value |-> 0, value |-> <<0, 0>>]
NoNotice == [shown |-> FALSE, year |-> NaN]

MissingTables ==
    {[x \in Levels |->
        {Row(y, "X", fx[x][y]) : y \in Years} \cup {Row(y, "Y", fy[y]) : y \in Years}] :
        fx \in [Levels -> [Years -> Fractions]], fy \in [Years -> Fractions]}

ScriptInit ==
    /\ step = "start"
    /\ glocal_missing_dict \in MissingTables
    /\ selected_country \in Countries
    /\ selected_gadm_level \in Levels
    /\ availability_dict = <<>>
    /\ missingvals_year = {}
    /\ selected_year = NoSlider
    /\ availability_table = <<>>
    /\ trends_notice = NoNotice
    /\ script_error = "none"

\* lines 236-246: the loop over the three levels
ComputeAvailability ==
    /\ step = "start"
    /\ availability_dict' =
          [x \in Range(LoopOrder) |-> Window(FilterYears(glocal_missing_dict[x], selected_country))]
    /\ missingvals_year' = LoopLeftover(glocal_missing_dict, selected_country)
    /\ step' = "slider"
    /\ UNCHANGED <<glocal_missing_dict, selected_country, selected_gadm_level,
                   selected_year, availability_table, trends_notice, script_error>>

\* lines 252-258: int() of a NaN bound raises and the script stops
Slider ==
    /\ step = "slider"
    /\ LET w == availability_dict[selected_gadm_level]
       IN  IF w[1].nan \/ w[2].nan
           THEN /\ script_error' = "ValueError"
                /\ step' = "stopped"
                /\ UNCHANGED selected_year
           ELSE /\ selected_year' = [min_value |-> w[1].v, max_value |-> w[2].v,
                                     value |-> <<w[1].v, w[2].v>>]
                /\ step' = "table"
                /\ UNCHANGED script_error
    /\ UNCHANGED <<glocal_missing_dict, selected_country, selected_gadm_level,
                   availability_dict, missingvals_year, availability_table, trends_notice>>

\* lines 312-322
AvailabilityTable ==
    /\ step = "table"
    /\ availability_table' = [x \in Levels |-> TableRow(availability_dict[x])]
    /\ step' = "trends"
    /\ UNCHANGED <<glocal_missing_dict, selected_country, selected_gadm_level,
                   availability_dict, missingvals_year, selected_year, trends_notice,
                   script_error>>

\* lines 361-368
Trends ==
    /\ step = "trends"
    /\ trends_notice' = NoticeFor(missingvals_year)
    /\ step' = "done"
    /\ UNCHANGED <<glocal_missing_dict, selected_country, selected_gadm_level,
                   availability_dict, missingvals_year, selected_year, availability_table,
                   script_error>>

(***************************************************************************)
(* Specifications.                                                         *)
(***************************************************************************)
ScriptIdle ==
    /\ step = "start"
    /\ glocal_missing_dict = [x \in Levels |-> {}]
    /\ selected_country = "X"
    /\ selected_gadm_level = 0
    /\ availability_dict = <<>>
    /\ missingvals_year = {}
    /\ selected_year = NoSlider
    /\ availability_table = <<>>
    /\ trends_notice = NoNotice
    /\ script_error = "none"

CacheIdle ==
    /\ now = 0
    /\ schema = "full"
    /\ read_data_cache = <<>>
    /\ func_cache = <<>>
    /\ pc = [s \in Sessions |-> "idle"]
    /\ op = [s \in Sessions |-> NoCall]
    /\ held = [s \in Sessions |-> NoPayload]
    /\ io = [s \in Sessions |-> 0]
    /\ last = [s \in Sessions |-> NoneYet]
    /\ calls = 0

Init == CacheInit /\ ScriptIdle

Calls == \E s \in Sessions, c \in CallInputs : Call(s, c) /\ UNCHANGED scriptVars
FetchReturns ==
    \E s \in Sessions, openOk \in BOOLEAN, strict \in BOOLEAN :
        FetchReturn(s, openOk, strict) /\ UNCHANGED scriptVars
Posts == \E s \in Sessions : Post(s) /\ UNCHANGED scriptVars
Ticks == Tick /\ UNCHANGED scriptVars

Next == Calls \/ FetchReturns \/ Posts \/ Ticks

Spec == Init /\ [][Next]_vars

\* read_data alone, over every kind of path, column argument and spatial flag
FetchInputs ==
    {ReadData(Request(Path(d, 1, "X", e), cols, spatial)) :
        d \in {"gadm"}, e \in {"parquet", "csv", "shp", "txt"},
        cols \in {NoColumns, Columns(<<Col("v1")>>), Columns(<<LevelCol("GID_", 1), Col("v1")>>)},
        spatial \in BOOLEAN}

FetchCalls == \E s \in Sessions, c \in FetchInputs : Call(s, c) /\ UNCHANGED scriptVars

FetchNext == FetchCalls \/ FetchReturns

FetchSpec == Init /\ [][FetchNext]_vars

ScriptStart == ScriptInit /\ CacheIdle

RunAvailability == ComputeAvailability /\ UNCHANGED cacheVars
RunSlider == Slider /\ UNCHANGED cacheVars
RunAvailabilityTable == AvailabilityTable /\ UNCHANGED cacheVars
RunTrends == Trends /\ UNCHANGED cacheVars

ScriptNext == RunAvailability \/ RunSlider \/ RunAvailabilityTable \/ RunTrends

ScriptSpec == ScriptStart /\ [][ScriptNext]_vars

(***************************************************************************)
(* Properties.                                                             *)
(***************************************************************************)
Failures == {"FetchFailure", "UnsupportedFormat", "UnsupportedOperation"}
BoundaryFns == {"get_country_shapefile", "get_country_shapefile_as_geojson"}

\* the data of the source object a request asks for
SourceData(req) ==
    [path |-> req.path,
     cols |-> IF req.columns.given
              THEN Range(req.columns.list) \cap SourceColumns(req.path, Range(req.columns.list))
              ELSE SourceColumns(req.path, {}),
     form |-> "table"]
Data(payload) == [path |-> payload.path, cols |-> payload.cols, form |-> payload.form]

C2_NeverOlderThanTTL ==
    \A s \in Sessions :
        last[s].result.kind = "ok" => last[s].at - last[s].result.payload.fetchedAt < 900

\* C3: a read that ends in FetchFailure, UnsupportedFormat or
\* UnsupportedOperation made one remote I/O attempt and leaves every cache as
\* it was, and a call of read_data that finds no live entry for its request
\* attempts the fetch.
C3_FailureNotCached ==
    [][/\ \A s \in Sessions :
            (pc[s] = "fetching" /\ pc'[s] = "idle" /\ last'[s].result.kind \in Failures) =>
                /\ read_data_cache' = read_data_cache
                /\ func_cache' = func_cache
                /\ last'[s].io = 1
                /\ last'[s].result.payload = NoPayload
       /\ \A s \in Sessions, c \in CallInputs :
            (/\ c.fn = "read_data" /\ Call(s, c)
             /\ \/ c.req \notin DOMAIN read_data_cache
                \/ now - read_data_cache[c.req].stored >= 900) =>
                pc'[s] = "fetching" /\ io'[s] = 1]_vars

\* C3 witness: a fetch failed while an entry of an earlier fetch of the same
\* request is in the cache, and that entry is still the earlier one
C3_Witness ==
    \E s \in Sessions :
        /\ last[s].call.fn = "read_data" /\ last[s].result.kind = "FetchFailure"
        /\ last[s].io = 1
        /\ last[s].call.req \in DOMAIN read_data_cache
        /\ read_data_cache[last[s].call.req].stored < last[s].at

\* the boundary lookup's required columns, in the order they are checked
RequiredCols(level, spatial) ==
    <<LevelCol("GID_", level), LevelCol("NAME_", level)>>
        \o (IF spatial THEN <<Col("geometry")>> ELSE <<>>)
IsSpatial(fn) == fn = "get_country_shapefile_as_geojson"

\* C7: a boundary lookup asks for GID_<level> and NAME_<level> (and geometry
\* when spatial); when the table it gets lacks one of them it fails with
\* SchemaViolation naming the first missing one, returns no record and stores
\* nothing in its cache, and no lookup ever returns or caches a record that
\* lacks a required column.
C7_SchemaViolation ==
    /\ [](\A s \in Sessions :
            (last[s].call.fn \in BoundaryFns /\ last[s].result.kind = "ok") =>
                Range(RequiredCols(last[s].call.level, IsSpatial(last[s].call.fn)))
                    \subseteq last[s].result.payload.cols)
    /\ [](\A k \in DOMAIN func_cache :
            k.fn \in BoundaryFns =>
                Range(RequiredCols(k.level, IsSpatial(k.fn))) \subseteq func_cache[k].payload.cols)
    /\ [](\A s \in Sessions :
            (pc[s] # "idle" /\ op[s].fn \in BoundaryFns) =>
                op[s].req.columns = Columns(RequiredCols(op[s].level, IsSpatial(op[s].fn))))
    /\ [][\A s \in Sessions :
            LET req == RequiredCols(op[s].level, IsSpatial(op[s].fn))
                miss == {i \in 1..Len(req) : req[i] \notin held[s].cols}
            IN  (pc[s] = "post" /\ pc'[s] = "idle" /\ op[s].fn \in BoundaryFns /\ miss # {}) =>
                    /\ last'[s].result.kind = "SchemaViolation"
                    /\ \E i \in miss : /\ \A j \in miss : i <= j
                                       /\ last'[s].result.col = req[i]
                    /\ last'[s].result.payload = NoPayload
                    /\ func_cache' = func_cache]_vars

\* C7 witness: a lookup failed on the missing NAME column, and a later lookup
\* with the same arguments, served the same table by read_data, failed again
C7_Witness ==
    \E s, u \in Sessions :
        /\ last[s].call.fn \in BoundaryFns /\ last[s].result.kind = "SchemaViolation"
        /\ last[s].result.col = LevelCol("NAME_", last[s].call.level)
        /\ last[s].io = 1
        /\ last[u].call = last[s].call /\ last[u].result.kind = "SchemaViolation"
        /\ last[u].io = 0 /\ last[u].at > last[s].at
        /\ func_key(last[s].call) \notin DOMAIN func_cache

\* C9: under every interleaving, each read_data call that returns returns the
\* source object's data for its request, and the slot of that request then
\* holds one entry with that same data, live when the call returned.
C9_ConcurrentReads ==
    \A s \in Sessions :
        (last[s].call.fn = "read_data" /\ last[s].result.kind = "ok") =>
            LET req == last[s].call.req
            IN  /\ Data(last[s].result.payload) = SourceData(req)
                /\ req \in DOMAIN read_data_cache
                /\ Data(read_data_cache[req].payload) = SourceData(req)
                /\ last[s].at - read_data_cache[req].stored < 900
                /\ read_data_cache[req].payload.fetchedAt = read_data_cache[req].stored

\* C9 witness: two sessions missed on the same request at the same time, both
\* fetched, and both have returned
C9_Witness ==
    \E s, u \in Sessions :
        /\ s # u
        /\ last[s].call.fn = "read_data" /\ last[u].call = last[s].call
        /\ last[s].result.kind = "ok" /\ last[u].result.kind = "ok"
        /\ last[s].io = 1 /\ last[u].io = 1
        /\ ~last[s].hit /\ ~last[u].hit
        /\ last[u].at - last[s].at < 900 /\ last[s].at - last[u].at < 900
        /\ pc[s] = "idle" /\ pc[u] = "idle"

\* the object was found and opened (the failure, if any, came later)
Opened(result) == result.msg # "fs.open"

\* C4 as amended: with a columns argument, a .csv path read with spatial false
\* and a .shp path read with spatial true end in UnsupportedOperation
\* ("Columns not supported ...") once the object is open; a .csv path read with
\* spatial true and a .shp path read with spatial false end in
\* UnsupportedFormat; none of them ever returns a table.
C4_ColumnsRejected ==
    \A s \in Sessions :
        LET req == last[s].call.req
            r == last[s].result
        IN  (/\ last[s].call.fn = "read_data"
             /\ req.path.ext \in {"csv", "shp"}
             /\ req.columns.given) =>
                /\ r.kind # "ok" /\ r.payload = NoPayload
                /\ req \notin DOMAIN read_data_cache
                /\ Opened(r) =>
                      r.kind = IF (req.path.ext = "csv") = ~req.spatial
                               THEN "UnsupportedOperation"
                               ELSE "UnsupportedFormat"
                /\ r.kind = "UnsupportedOperation" =>
                      r.msg = IF req.path.ext = "csv"
                              THEN "Columns not supported for CSV files"
                              ELSE "Columns not supported for Shapefiles"

\* C4 witness: a shape-format read with a columns argument and spatial true
\* ended in UnsupportedOperation
C4_Witness ==
    \E s \in Sessions :
        /\ last[s].call.req.path.ext = "shp" /\ last[s].call.req.spatial
        /\ last[s].call.req.columns.given
        /\ last[s].result.kind = "UnsupportedOperation"
        /\ last[s].result.msg = "Columns not supported for Shapefiles"

\* C4 as stated: every fetch of an existing .csv or .shp object with a columns
\* argument, whatever the spatial flag, ends in UnsupportedOperation.
C4_Original ==
    \A s \in Sessions :
        (/\ last[s].call.fn = "read_data"
         /\ last[s].call.req.path.ext \in {"csv", "shp"}
         /\ last[s].call.req.columns.given
         /\ Opened(last[s].result)) =>
            last[s].result.kind = "UnsupportedOperation"

(***************************************************************************)
(* Properties of the script.                                               *)
(***************************************************************************)
\* the years in which the selected country has data at level x
YearsWithData(x) ==
    {y \in Years : \E r \in glocal_missing_dict[x] :
        r.year = y /\ r.GID_0 = selected_country /\ r.frac < One}
Least(S) == CHOOSE m \in S : \A y \in S : m <= y
Greatest(S) == CHOOSE m \in S : \A y \in S : m >= y

\* C5: for a level with data the window is (min year, max year) when these
\* differ and (Y, Y+1) when Y is the only year with data; earliest < latest,
\* and the slider of the selected level gets that span.
C5_Window ==
    step # "start" =>
        \A x \in Levels :
            LET F == YearsWithData(x)
                w == availability_dict[x]
            IN  F # {} =>
                  /\ w = IF Cardinality(F) = 1
                         THEN <<Num(Least(F)), Num(Least(F) + 1)>>
                         ELSE <<Num(Least(F)), Num(Greatest(F))>>
                  /\ w[1].v < w[2].v
                  /\ (x = selected_gadm_level /\ step \in {"table", "trends", "done"}) =>
                        /\ selected_year.min_value = w[1].v
                        /\ selected_year.max_value = w[2].v
                        /\ selected_year.min_value < selected_year.max_value

\* C5 witness: the selected level has data in the first year only and the
\* script ran to its end
C5_Witness ==
    /\ step = "done"
    /\ YearsWithData(selected_gadm_level) = {FirstYear}
    /\ availability_dict[selected_gadm_level] = <<Num(FirstYear), Num(FirstYear + 1)>>
    /\ selected_year.value = <<FirstYear, FirstYear + 1>>

\* C6: a level without any year of data makes the window computation signal
\* NoDataAvailable, and no pair with undefined bounds is stored for it.
C6_EmptySignalled ==
    step # "start" =>
        \A x \in Levels :
            YearsWithData(x) = {} =>
                /\ script_error = "NoDataAvailable"
                /\ x \in DOMAIN availability_dict =>
                      ~availability_dict[x][1].nan /\ ~availability_dict[x][2].nan

\* C8: the Trends section shows the single-year notice exactly when the
\* selected level has data in exactly one year, and names that year.
C8_NoticeIffSingleYear ==
    step = "done" =>
        LET F == YearsWithData(selected_gadm_level)
        IN  /\ trends_notice.shown <=> Cardinality(F) = 1
            /\ trends_notice.shown => trends_notice.year = Num(Least(F))

\* C10: for a level with data the Data Availability table shows the minimum
\* year as Earliest Year and the maximum year as Latest Year.
C10_TableYears ==
    step \in {"trends", "done"} =>
        \A x \in Levels :
            LET F == YearsWithData(x)
            IN  F # {} =>
                  /\ availability_table[x].earliest = Num(Least(F))
                  /\ availability_table[x].latest = Num(Greatest(F))

====
